---- MODULE Spec2Model ----
(***************************************************************************)
(* Model of antenna-pattern-generator-lib (src/src/lib.rs).               *)
(*                                                                         *)
(* Numbers.  f64 values are modelled exactly on a lattice: a finite value  *)
(* is n * (pi/2)^e with n, e integers; NaN and the infinities are kept as  *)
(* separate kinds, and a finite value that leaves the lattice is the kind  *)
(* "irr".  Angles are multiples of pi/2, lengths are multiples of a        *)
(* quarter of the reference wavelength and frequencies are multiples of    *)
(* the reference frequency, so that every product k * length * sin * cos   *)
(* the code forms is again a multiple of pi/2 and sin, cos and exp of it   *)
(* are exact.  In these units SPEED_OF_LIGHT is 4 and PI is 2 * (pi/2).    *)
(***************************************************************************)
EXTENDS Integers, Sequences, FiniteSets, TLC

VARIABLES
    elements,   \* ArrayAntenna.elements: Seq of PositionElement
    built,      \* "assemble" | "ready" | "panicked"
    args,       \* [frequency, theta, phi] the caller queries with
    op,         \* the last operation performed on the array
    result,     \* what the last operation returned
    updates,    \* number of weight updates performed so far
    cache,      \* calc_phase's memo store, least recently used first
    ckey,       \* the key of the last calc_phase call
    cval,       \* what the last calc_phase call returned
    chit,       \* whether the last calc_phase call was served from the store
    fresh,      \* number of keys of the sweep queried so far
    requeries,  \* number of repeated queries so far
    wpc,        \* write_to_file: "start" | "done" | "panic"
    win,        \* write_to_file's arguments
    wfile,      \* the rows written to the file
    wcalls,     \* the (theta, phi) of every Array.get_gain call, in order
    emodel,     \* an element model on its own, once constructed
    mresult     \* what its get_gain returned

avars == <<elements, built, args, op, result, updates>>

cvars == <<cache, ckey, cval, chit, fresh, requeries>>

wvars == <<wpc, win, wfile, wcalls>>

mvars == <<emodel, mresult>>

vars == <<avars, cvars, wvars, mvars>>

-----------------------------------------------------------------------------
(* f64 *)

Abs(x) == IF x < 0 THEN -x ELSE x

Sgn(x) == IF x < 0 THEN -1 ELSE IF x > 0 THEN 1 ELSE 0

RFin(n, e) == [n |-> n, e |-> IF n = 0 THEN 0 ELSE e, k |-> "fin"]

RInt(n) == RFin(n, 0)

RNaN == [n |-> 0, e |-> 0, k |-> "nan"]

RInf(s) == [n |-> s, e |-> 0, k |-> "inf"]

RIrr == [n |-> 0, e |-> 0, k |-> "irr"]

IsZero(a) == a.k = "fin" /\ a.n = 0

RNeg(a) == IF a.k \in {"fin", "inf"} THEN [a EXCEPT !.n = -a.n] ELSE a

RMul(a, b) ==
    IF a.k = "nan" \/ b.k = "nan" THEN RNaN
    ELSE IF a.k = "inf" \/ b.k = "inf"
         THEN IF IsZero(a) \/ IsZero(b) THEN RNaN
              ELSE IF a.k = "irr" \/ b.k = "irr" THEN RInf(1)
              ELSE RInf(Sgn(a.n) * Sgn(b.n))
    ELSE IF IsZero(a) \/ IsZero(b) THEN RInt(0)
    ELSE IF a.k = "irr" \/ b.k = "irr" THEN RIrr
    ELSE RFin(a.n * b.n, a.e + b.e)

RDiv(a, b) ==
    IF a.k = "nan" \/ b.k = "nan" THEN RNaN
    ELSE IF a.k = "inf" THEN (IF b.k = "inf" THEN RNaN ELSE a)
    ELSE IF b.k = "inf" THEN RInt(0)
    ELSE IF IsZero(b) THEN (IF IsZero(a) THEN RNaN ELSE RInf(1))
    ELSE IF IsZero(a) THEN RInt(0)
    ELSE IF a.k = "irr" \/ b.k = "irr" THEN RIrr
    ELSE IF Abs(a.n) % Abs(b.n) = 0
         THEN RFin(Sgn(a.n) * Sgn(b.n) * (Abs(a.n) \div Abs(b.n)), a.e - b.e)
         ELSE RIrr

RAdd(a, b) ==
    IF a.k = "nan" \/ b.k = "nan" THEN RNaN
    ELSE IF a.k = "inf"
         THEN (IF b.k = "inf" /\ b.n # a.n THEN RNaN ELSE a)
    ELSE IF b.k = "inf" THEN b
    ELSE IF IsZero(a) THEN b
    ELSE IF IsZero(b) THEN a
    ELSE IF a.k = "irr" \/ b.k = "irr" THEN RIrr
    ELSE IF a.e = b.e THEN RFin(a.n + b.n, a.e)
    ELSE RIrr

RSub(a, b) == RAdd(a, RNeg(b))

\* sin and cos of q * pi/2
SinQ(q) == CASE q % 4 = 0 -> 0 [] q % 4 = 1 -> 1 [] q % 4 = 2 -> 0 [] OTHER -> -1

CosQ(q) == CASE q % 4 = 0 -> 1 [] q % 4 = 1 -> 0 [] q % 4 = 2 -> -1 [] OTHER -> 0

RSin(a) ==
    IF a.k = "nan" \/ a.k = "inf" THEN RNaN
    ELSE IF a.k = "irr" THEN RIrr
    ELSE IF a.n = 0 THEN RInt(0)
    ELSE IF a.e = 1 THEN RInt(SinQ(a.n))
    ELSE RIrr

RCos(a) ==
    IF a.k = "nan" \/ a.k = "inf" THEN RNaN
    ELSE IF a.k = "irr" THEN RIrr
    ELSE IF a.n = 0 THEN RInt(1)
    ELSE IF a.e = 1 THEN RInt(CosQ(a.n))
    ELSE RIrr

RExp(a) ==
    IF a.k = "nan" THEN RNaN
    ELSE IF a.k = "inf" THEN (IF a.n > 0 THEN a ELSE RInt(0))
    ELSE IF IsZero(a) THEN RInt(1)
    ELSE RIrr

IsSquare(n) == \E r \in 0..n : r * r = n

Root(n) == CHOOSE r \in 0..n : r * r = n

\* x.powf(0.5)
RSqrt(a) ==
    IF a.k = "nan" THEN RNaN
    ELSE IF a.k = "inf" THEN (IF a.n > 0 THEN a ELSE RNaN)
    ELSE IF a.k = "irr" THEN RIrr
    ELSE IF a.n < 0 THEN RNaN
    ELSE IF IsSquare(a.n) /\ a.e % 2 = 0 THEN RFin(Root(a.n), a.e \div 2)
    ELSE RIrr

\* x.powf(2.0)
RSquare(a) == RMul(a, a)

-----------------------------------------------------------------------------
(* num::complex::Complex<f64> *)

Complex_new(re, im) == [re |-> re, im |-> im]

CZero == Complex_new(RInt(0), RInt(0))

COne == Complex_new(RInt(1), RInt(0))

IMAG == Complex_new(RInt(0), RInt(1))

CAdd(a, b) == Complex_new(RAdd(a.re, b.re), RAdd(a.im, b.im))

CMul(a, b) ==
    Complex_new(RSub(RMul(a.re, b.re), RMul(a.im, b.im)),
                RAdd(RMul(a.re, b.im), RMul(a.im, b.re)))

\* Complex<f64> * f64
CScale(a, r) == Complex_new(RMul(a.re, r), RMul(a.im, r))

\* Complex::exp: from_polar(exp(re), im)
CExp(a) ==
    LET r == RExp(a.re)
    IN Complex_new(RMul(r, RCos(a.im)), RMul(r, RSin(a.im)))

NormSqr(a) == RAdd(RSquare(a.re), RSquare(a.im))

\* Complex::norm
CNorm(a) == RSqrt(NormSqr(a))

RECURSIVE CSum(_)
\* Iterator::sum over Complex<f64>: a fold of + from zero
CSum(gains) ==
    IF gains = <<>> THEN CZero
    ELSE CAdd(CSum(SubSeq(gains, 1, Len(gains) - 1)), gains[Len(gains)])

-----------------------------------------------------------------------------
(* Constants of the library, in model units *)

SPEED_OF_LIGHT == RInt(4)

PI == RFin(2, 1)

Point_new(x, y, z) == [x |-> RInt(x), y |-> RInt(y), z |-> RInt(z)]

Angle(q) == RFin(q, 1)

WaveNumber(frequency) == RDiv(RMul(RMul(RInt(2), PI), frequency), SPEED_OF_LIGHT)

-----------------------------------------------------------------------------
(* calc_phase: the function body, without its memoization *)

calc_phase_sum(pnt, frequency, theta, phi) ==
    LET k  == WaveNumber(frequency)
        dx == CScale(CScale(CScale(CScale(IMAG, k), pnt.x), RCos(phi)), RSin(theta))
        dy == CScale(CScale(CScale(CScale(IMAG, k), pnt.y), RSin(phi)), RSin(theta))
        dz == CScale(CScale(CScale(IMAG, k), pnt.z), RCos(theta))
    IN CAdd(CMul(CExp(dx), CExp(dy)), CExp(dz))

calc_phase(pnt, frequency, theta, phi) ==
    LET k  == WaveNumber(frequency)
        dx == CScale(CScale(CScale(CScale(IMAG, k), pnt.x), RCos(phi)), RSin(theta))
        dy == CScale(CScale(CScale(CScale(IMAG, k), pnt.y), RSin(phi)), RSin(theta))
        dz == CScale(CScale(CScale(IMAG, k), pnt.z), RCos(theta))
    IN CMul(CMul(CExp(dx), CExp(dy)), CExp(dz))

-----------------------------------------------------------------------------
(* Element models *)

OmniElement_new(position, gain) ==
    [position |-> position, gain |-> gain, kind |-> "Omni"]

\* PatchElement has no constructor: it is built as a struct literal, and
\* nothing looks at length or width.
PatchElement_new(position, length, width) ==
    [position |-> position, kind |-> "Patch", length |-> length, width |-> width]

OmniElement_get_gain_untranslated(self, frequency, theta, phi) ==
    CScale(COne, self.gain)

OmniElement_get_gain(self, frequency, theta, phi) ==
    CScale(calc_phase(self.position, frequency, theta, phi), self.gain)

PatchElement_get_gain(self, frequency, theta, phi) ==
    LET k         == WaveNumber(frequency)
        sin_theta == RSin(theta)
        cos_theta == RCos(theta)
        sin_phi   == RSin(phi)
        cos_phi   == RCos(phi)
        inside0   == RDiv(RMul(RMul(RMul(k, self.width), sin_theta), sin_phi), RInt(2))
        value0    == RDiv(RSin(inside0), inside0)
        value1    == RCos(RMul(RMul(RMul(k, self.length), sin_theta), cos_phi))
        value2    == RMul(value0, value1)
        e_field_theta == RMul(value2, cos_phi)
        e_field_phi   == RMul(RMul(RNeg(value2), cos_theta), sin_phi)
    IN Complex_new(RSqrt(RAdd(RSquare(e_field_theta), RSquare(e_field_phi))), RInt(0))

\* dyn ElementIface dispatch
ElementIface_get_gain(model, frequency, theta, phi) ==
    IF model.kind = "Omni" THEN OmniElement_get_gain(model, frequency, theta, phi)
    ELSE PatchElement_get_gain(model, frequency, theta, phi)

-----------------------------------------------------------------------------
(* PositionElement: placement, translation cache slot, weight, model *)

\* The array element is built around one placement: the wrapper keeps it
\* and the model it wraps is positioned at it.  Weight defaults to 1 + 0j.
PositionElement_new(model) ==
    [position        |-> model.position,
     position_factor |-> COne,
     weight          |-> COne,
     element         |-> model]

\* A model that translates itself (Omni) is not translated again by the
\* wrapper; a position-agnostic model (Patch) is translated by the wrapper.
\* The weight is applied by the wrapper in both cases.
PositionElement_get_gain(self, frequency, theta, phi) ==
    LET g == ElementIface_get_gain(self.element, frequency, theta, phi)
    IN IF self.element.kind = "Omni"
       THEN CMul(g, self.weight)
       ELSE CMul(CMul(g, calc_phase(self.position, frequency, theta, phi)),
                 self.weight)

PositionElement_set_weight(self, w) == [self EXCEPT !.weight = w]

-----------------------------------------------------------------------------
(* ArrayAntenna *)

\* What a call hands back: a value, or the panic of an out-of-range index
Returned(v) == [tag |-> "ok", val |-> v]

Panic == [tag |-> "IndexOutOfRange", val |-> CZero]

NoResult == [tag |-> "none", val |-> CZero]

ArrayAntenna_new(elems) == elems

ArrayAntenna_get_channel_gain_clamped(self, channel, frequency, phi, theta) ==
    IF self = <<>> THEN Returned(CZero)
    ELSE Returned(PositionElement_get_gain(
             self[IF channel >= Len(self) THEN Len(self) ELSE channel + 1],
             frequency, phi, theta))

ArrayAntenna_get_channel_gain_first(self, channel, frequency, phi, theta) ==
    IF channel >= Len(self) THEN Panic
    ELSE Returned(PositionElement_get_gain(self[1], frequency, phi, theta))

\* The impl names its second angle parameter theta and its first phi, the
\* reverse of the trait; it forwards them in the order it received them.
ArrayAntenna_get_channel_gain(self, channel, frequency, phi, theta) ==
    IF channel >= Len(self) THEN Panic
    ELSE Returned(PositionElement_get_gain(self[channel + 1], frequency, phi, theta))

ArrayAntenna_get_gain_skip(self, frequency, phi, theta) ==
    LET gains == [i \in 1..(Len(self) - 1) |->
                     PositionElement_get_gain(self[i + 1], frequency, phi, theta)]
    IN CSum(gains)

ArrayAntenna_get_gain_swapped(self, frequency, phi, theta) ==
    LET gains == [i \in 1..Len(self) |->
                     PositionElement_get_gain(self[i], frequency, theta, phi)]
    IN CSum(gains)

ArrayAntenna_get_gain(self, frequency, phi, theta) ==
    LET gains == [i \in 1..Len(self) |->
                     PositionElement_get_gain(self[i], frequency, phi, theta)]
    IN CSum(gains)

-----------------------------------------------------------------------------
(* Inputs *)

MaxElems == 2

MaxUpdates == 1

\* The element models an array is assembled from: an omni element a quarter
\* wavelength along x and a patch off the x axis.
Models ==
    {OmniElement_new(Point_new(1, 0, 0), RInt(2)),
     PatchElement_new(Point_new(0, 1, 2), RInt(1), RInt(2))}

Factors == {Complex_new(RInt(0), RInt(2))}

Freqs == {RInt(1), RInt(2)}

Thetas == {Angle(0), Angle(1), Angle(2)}

Phis == {Angle(0), Angle(1), Angle(2), Angle(3)}

Call(name, channel, c) == [channel |-> channel, name |-> name, c |-> c]

-----------------------------------------------------------------------------
(* The array: assembly, queries, weight update *)

InitArray ==
    /\ elements = <<>>
    /\ built = "assemble"
    /\ args \in [frequency : Freqs, theta : Thetas, phi : Phis]
    /\ op = Call("none", 0, CZero)
    /\ result = NoResult
    /\ updates = 0

AddElement(model) ==
    /\ built = "assemble"
    /\ Len(elements) < MaxElems
    /\ elements' = Append(elements, PositionElement_new(model))
    /\ UNCHANGED <<built, args, op, result, updates>>
    /\ UNCHANGED <<cvars, wvars, mvars>>

New ==
    /\ built = "assemble"
    /\ elements' = ArrayAntenna_new(elements)
    /\ built' = "ready"
    /\ UNCHANGED <<args, op, result, updates>>
    /\ UNCHANGED <<cvars, wvars, mvars>>

GetGain ==
    /\ built = "ready"
    /\ result' = Returned(ArrayAntenna_get_gain(elements, args.frequency,
                                                 args.theta, args.phi))
    /\ op' = Call("get_gain", 0, CZero)
    /\ UNCHANGED <<elements, built, args, updates>>
    /\ UNCHANGED <<cvars, wvars, mvars>>

GetChannelGain(channel) ==
    /\ built = "ready"
    /\ result' = ArrayAntenna_get_channel_gain(elements, channel, args.frequency,
                                               args.theta, args.phi)
    /\ op' = Call("get_channel_gain", channel, CZero)
    /\ built' = IF result' = Panic THEN "panicked" ELSE built
    /\ UNCHANGED <<elements, args, updates>>
    /\ UNCHANGED <<cvars, wvars, mvars>>

\* Weight update in place: the new weight is the old weight times c
SetWeight(channel, c) ==
    /\ built = "ready"
    /\ channel < Len(elements)
    /\ updates < MaxUpdates
    /\ elements' = [elements EXCEPT ![channel + 1] =
                       PositionElement_set_weight(@, CMul(@.weight, c))]
    /\ op' = Call("set_weight", channel, c)
    /\ updates' = updates + 1
    /\ UNCHANGED <<built, args, result>>
    /\ UNCHANGED <<cvars, wvars, mvars>>

NextArray ==
    \/ \E m \in Models : AddElement(m)
    \/ New
    \/ GetGain
    \/ \E ch \in 0..MaxElems : GetChannelGain(ch)
    \/ \E ch \in 0..(MaxElems - 1), c \in Factors : SetWeight(ch, c)

-----------------------------------------------------------------------------
(* calc_phase behind #[memoize(Capacity: 1000)]: a least-recently-used     *)
(* store keyed on the argument tuple                                       *)

Capacity == 1000

\* A key is the argument tuple (pnt.x, pnt.y, pnt.z, frequency, theta, phi),
\* each number in model units: quarter wavelengths, multiples of the
\* reference frequency, quarter turns.
Key(x, y, z, frequency, theta, phi) == <<x, y, z, frequency, theta, phi>>

\* The body of calc_phase on the arguments of a key
Compute(key) ==
    calc_phase(Point_new(key[1], key[2], key[3]), RInt(key[4]),
               Angle(key[5]), Angle(key[6]))

Lookup(store, key) == {i \in 1..Len(store) : store[i].key = key}

Without(store, i) == SubSeq(store, 1, i - 1) \o SubSeq(store, i + 1, Len(store))

\* LruCache::put: the least recently used entry goes when the store is full
Put(store, entry) ==
    IF Len(store) >= Capacity THEN Append(Tail(store), entry)
    ELSE Append(store, entry)

calc_phase_memo_nofreq(store, key) ==
    LET found == {i \in 1..Len(store) :
                     /\ SubSeq(store[i].key, 1, 3) = SubSeq(key, 1, 3)
                     /\ SubSeq(store[i].key, 5, 6) = SubSeq(key, 5, 6)}
    IN IF found # {}
       THEN LET i == CHOOSE i \in found : TRUE
            IN [val |-> store[i].val,
                store |-> Append(Without(store, i), store[i]), hit |-> TRUE]
       ELSE LET r == Compute(key)
            IN [val |-> r,
                store |-> Put(store, [val |-> r, key |-> key]), hit |-> FALSE]

\* The memoized function: a stored result is returned (and becomes the most
\* recently used); otherwise the body runs and its result is stored.
calc_phase_memo(store, key) ==
    LET found == Lookup(store, key)
    IN IF found # {}
       THEN LET i == CHOOSE i \in found : TRUE
            IN [val |-> store[i].val,
                store |-> Append(Without(store, i), store[i]), hit |-> TRUE]
       ELSE LET r == Compute(key)
            IN [val |-> r,
                store |-> Put(store, [val |-> r, key |-> key]), hit |-> FALSE]

\* The caller sweeps a grid: theta fastest, then phi, then frequency, then
\* the element placement, starting from the placement (1, 1, 1).
SweepKey(n) ==
    LET p == ((n \div 64) + 13) % 27
    IN Key(p % 3, (p \div 3) % 3, p \div 9,
           1 + ((n \div 16) % 4),
           n % 4,
           (n \div 4) % 4)

\* How far past the capacity the sweep goes
MaxOver == 2

\* Repeated queries start this many keys before the store is full
Window == 2

MaxRequeries == 2

InitCache ==
    /\ cache = <<>>
    /\ ckey = SweepKey(0)
    /\ cval = CZero
    /\ chit = FALSE
    /\ fresh = 0
    /\ requeries = 0

CallPhase(key) ==
    LET r == calc_phase_memo(cache, key)
    IN /\ cache' = r.store
       /\ cval' = r.val
       /\ chit' = r.hit
       /\ ckey' = key

\* calc_phase on the next key of the sweep
CallNew ==
    /\ fresh < Capacity + MaxOver
    /\ CallPhase(SweepKey(fresh))
    /\ fresh' = fresh + 1
    /\ UNCHANGED requeries
    /\ UNCHANGED <<avars, wvars, mvars>>

\* calc_phase again on one of the oldest keys or on the newest one
CallAgain(n) ==
    /\ fresh >= Capacity - Window
    /\ requeries < MaxRequeries
    /\ CallPhase(SweepKey(n))
    /\ requeries' = requeries + 1
    /\ UNCHANGED fresh
    /\ UNCHANGED <<avars, wvars, mvars>>

NextCache ==
    \/ CallNew
    \/ \E n \in {0, 1, 2, fresh - 1} : CallAgain(n)

-----------------------------------------------------------------------------
(* write_to_file (src/src/lib.rs) *)

\* (a / b) as u64, for a >= 0 and b > 0 on the same lattice
AsU64Quot(a, b) ==
    IF a.k = "fin" /\ b.k = "fin" /\ a.e = b.e /\ a.n >= 0 /\ b.n > 0
    THEN a.n \div b.n
    ELSE 0

\* format!("{:0.2}", x): the value in hundredths, or the text of a non-number
Fmt2(x) ==
    IF x.k = "fin" /\ x.e = 0 THEN [text |-> "num", hundredths |-> 100 * x.n]
    ELSE [text |-> x.k, hundredths |-> 0]

Degrees(angle) == RDiv(RMul(angle, RInt(180)), PI)

WriteToFile_rows(array, frequency, theta_spacing, phi_spacing) ==
    LET num_theta_samples == AsU64Quot(PI, theta_spacing)
        num_phi_samples   == AsU64Quot(RMul(RInt(2), PI), phi_spacing)
        Theta(theta_idx)  == RMul(RInt(theta_idx), theta_spacing)
        Phi(phi_idx)      == RMul(RInt(phi_idx), phi_spacing)
        header == <<[text |-> "0.0", hundredths |-> 0]>>
                  \o [t \in 1..num_theta_samples |-> Fmt2(Degrees(Theta(t - 1)))]
        Row(phi_idx) ==
            <<Fmt2(Degrees(Phi(phi_idx)))>>
            \o [t \in 1..num_theta_samples |->
                   Fmt2(CNorm(ArrayAntenna_get_gain(array, frequency,
                                                    Theta(t - 1), Phi(phi_idx))))]
    IN <<header>> \o [r \in 1..num_theta_samples |-> Row(r - 1)]

WriteToFile_calls(theta_spacing, phi_spacing) ==
    LET num_theta_samples == AsU64Quot(PI, theta_spacing)
        num_phi_samples   == AsU64Quot(RMul(RInt(2), PI), phi_spacing)
        Theta(theta_idx)  == RMul(RInt(theta_idx), theta_spacing)
        Phi(phi_idx)      == RMul(RInt(phi_idx), phi_spacing)
    IN [c \in 1..(num_theta_samples * num_theta_samples) |->
           <<Theta((c - 1) % num_theta_samples), Phi((c - 1) \div num_theta_samples)>>]

RECURSIVE Arrays(_)
Arrays(n) ==
    IF n = 0 THEN {<<>>}
    ELSE Arrays(n - 1)
         \cup {Append(a, PositionElement_new(m)) :
                  a \in {b \in Arrays(n - 1) : Len(b) = n - 1}, m \in Models}

Steps == {Angle(1), Angle(2), Angle(3)}

InitWrite ==
    /\ wpc = "start"
    /\ win \in [frequency : Freqs, array : Arrays(MaxElems),
                theta_spacing : Steps, phi_spacing : Steps,
                creatable : BOOLEAN]
    /\ wfile = <<>>
    /\ wcalls = <<>>

\* File::create fails: panic before anything is written
WriteToFilePanics ==
    /\ wpc = "start"
    /\ ~win.creatable
    /\ wpc' = "panic"
    /\ UNCHANGED <<win, wfile, wcalls>>
    /\ UNCHANGED <<avars, cvars, mvars>>

WriteToFile ==
    /\ wpc = "start"
    /\ win.creatable
    /\ wfile' = WriteToFile_rows(win.array, win.frequency,
                                 win.theta_spacing, win.phi_spacing)
    /\ wcalls' = WriteToFile_calls(win.theta_spacing, win.phi_spacing)
    /\ wpc' = "done"
    /\ UNCHANGED win
    /\ UNCHANGED <<avars, cvars, mvars>>

NextWrite ==
    \/ WriteToFile
    \/ WriteToFilePanics

-----------------------------------------------------------------------------
(* An element model on its own: construction, then get_gain *)

NoModel == [kind |-> "none"]

Dims == {-1, 0, 1, 2}

InitModel ==
    /\ emodel = NoModel
    /\ mresult = NoResult

\* OmniElement::new, derived
NewOmni(position, gain) ==
    /\ emodel = NoModel
    /\ emodel' = OmniElement_new(position, RInt(gain))
    /\ UNCHANGED <<mresult, args>>
    /\ UNCHANGED <<elements, built, op, result, updates, cvars, wvars>>

\* PatchElement { position, length, width }
NewPatch(position, length, width) ==
    /\ emodel = NoModel
    /\ emodel' = PatchElement_new(position, RInt(length), RInt(width))
    /\ UNCHANGED <<mresult, args>>
    /\ UNCHANGED <<elements, built, op, result, updates, cvars, wvars>>

ModelGetGain ==
    /\ emodel # NoModel
    /\ mresult' = Returned(ElementIface_get_gain(emodel, args.frequency,
                                                 args.theta, args.phi))
    /\ UNCHANGED <<emodel, args>>
    /\ UNCHANGED <<elements, built, op, result, updates, cvars, wvars>>

NextModel ==
    \/ \E g \in {1, 2} : NewOmni(Point_new(1, 0, 0), g)
    \/ \E l \in Dims, w \in Dims : NewPatch(Point_new(0, 1, 2), l, w)
    \/ ModelGetGain

-----------------------------------------------------------------------------
(* Specifications *)

IdleArray ==
    /\ elements = <<>>
    /\ built = "assemble"
    /\ args = [frequency |-> RInt(1), theta |-> Angle(0), phi |-> Angle(0)]
    /\ op = Call("none", 0, CZero)
    /\ result = NoResult
    /\ updates = 0

IdleWrite ==
    /\ wpc = "idle"
    /\ win = [frequency |-> RInt(1), array |-> <<>>, theta_spacing |-> Angle(1),
              phi_spacing |-> Angle(1), creatable |-> TRUE]
    /\ wfile = <<>>
    /\ wcalls = <<>>

Init == InitArray /\ InitCache /\ IdleWrite /\ InitModel

Next == NextArray

Spec == Init /\ [][Next]_vars

InitC == IdleArray /\ InitCache /\ IdleWrite /\ InitModel

NextC == NextCache

SpecCache == InitC /\ [][NextC]_vars

InitW == IdleArray /\ InitCache /\ InitWrite /\ InitModel

NextW == NextWrite

SpecWrite == InitW /\ [][NextW]_vars

InitM == InitArray /\ InitCache /\ IdleWrite /\ InitModel

NextM == NextModel

SpecElement == InitM /\ [][NextM]_vars

-----------------------------------------------------------------------------
(* Properties of the array *)

ChannelGain(elems, i) ==
    ArrayAntenna_get_channel_gain(elems, i, args.frequency, args.theta, args.phi)

RECURSIVE SumChannels(_)
SumChannels(n) ==
    IF n = 0 THEN CZero ELSE CAdd(SumChannels(n - 1), ChannelGain(elements, n - 1).val)

\* C1: get_gain returns the sum over all channel indices of get_channel_gain
\* at the same frequency and angles: 0 + 0j for the empty array and the
\* single channel's gain for a one-element array.
GetGainIsSumOfChannels ==
    op.name = "get_gain" =>
        /\ result = Returned(SumChannels(Len(elements)))
        /\ Len(elements) = 0 => result.val = CZero
        /\ Len(elements) = 1 => result = ChannelGain(elements, 0)

GetGainSummedTwo ==
    /\ op.name = "get_gain"
    /\ Len(elements) = 2
    /\ result.val.re.k = "fin"
    /\ result.val # CZero
    /\ result.val # ChannelGain(elements, 0).val
    /\ result.val # ChannelGain(elements, 1).val

\* The position-agnostic pattern of a model: the scalar gain of an omni
\* element, the closed-form directivity of a patch.
RawGain(model) ==
    IF model.kind = "Omni" THEN Complex_new(model.gain, RInt(0))
    ELSE PatchElement_get_gain(model, args.frequency, args.theta, args.phi)

Contribution(e) ==
    CMul(CMul(RawGain(e.element),
              calc_phase(e.position, args.frequency, args.theta, args.phi)),
         e.weight)

ChannelIndexChecked ==
    op.name = "get_channel_gain" =>
        /\ op.channel >= Len(elements) <=> result = Panic
        /\ op.channel >= Len(elements) => built = "panicked"
        /\ op.channel < Len(elements) =>
               /\ result.tag = "ok"
               /\ result.val = PositionElement_get_gain(elements[op.channel + 1],
                                    args.frequency, args.theta, args.phi)

ChannelOutOfRange ==
    /\ op.name = "get_channel_gain"
    /\ Len(elements) = 2
    /\ op.channel = 2
    /\ result = Panic

\* C5: PatchElement::get_gain at theta = 0 returns exactly 1 + 0j, for a
\* patch of any (positive) length and width, any frequency and any phi.
PatchGainAtBoresightIsOne ==
    (/\ mresult # NoResult
     /\ emodel.kind = "Patch"
     /\ emodel.length.n > 0
     /\ emodel.width.n > 0
     /\ args.theta = Angle(0)) => mresult.val = COne

ScaledBy(c, before, after) == after = CMul(before, c)

PatchGeometryPositive ==
    emodel.kind = "Patch" => (emodel.length.n > 0 /\ emodel.width.n > 0)

ModelGain(e, theta, phi) ==
    LET g == ElementIface_get_gain(e.element, args.frequency, theta, phi)
        t == IF e.element.kind = "Omni" THEN COne
             ELSE calc_phase(e.position, args.frequency, theta, phi)
    IN CMul(CMul(g, t), e.weight)

\* C10: the caller's theta and phi reach every element model as its theta
\* and its phi, for get_gain and for get_channel_gain alike.
AnglesNotSwapped ==
    /\ op.name = "get_gain" =>
           result.val = CSum([i \in 1..Len(elements) |->
                                ModelGain(elements[i], args.theta, args.phi)])
    /\ (op.name = "get_channel_gain" /\ op.channel < Len(elements)) =>
           result.val = ModelGain(elements[op.channel + 1], args.theta, args.phi)

AnglesDistinguished ==
    /\ op.name = "get_gain"
    /\ Len(elements) >= 1
    /\ args.theta # args.phi
    /\ result.val.re.k = "fin"
    /\ result.val # CSum([i \in 1..Len(elements) |->
                            ModelGain(elements[i], args.phi, args.theta)])

-----------------------------------------------------------------------------
(* Properties of calc_phase and its memoization *)

\* C4: after any sequence of calc_phase calls, repeated and new keys mixed,
\* past the capacity of the store, every call returns what the uncached
\* body computes for its own key; the store never exceeds its capacity and
\* holds the returned value under the key of the call.
MemoizedEqualsUncached ==
    fresh + requeries > 0 =>
        /\ cval = Compute(ckey)
        /\ Len(cache) <= Capacity
        /\ cache[Len(cache)] = [val |-> cval, key |-> ckey]

EvictedKeyRecomputed ==
    /\ requeries > 0
    /\ ~chit
    /\ ckey = SweepKey(1)
    /\ fresh > Capacity
    /\ Len(cache) = Capacity
    /\ cval # COne

\* C9: calc_phase returns a complex number of magnitude 1.
PhaseHasUnitMagnitude ==
    fresh + requeries > 0 => NormSqr(cval) = RInt(1)

PhaseOffAxis ==
    /\ fresh > 0
    /\ ckey[1] > 0 /\ ckey[2] > 0 /\ ckey[3] > 0
    /\ cval.re.n = 0
    /\ cval.im.n # 0

-----------------------------------------------------------------------------
(* Properties of write_to_file *)

\* C8: write_to_file evaluates Array.get_gain exactly once at every grid
\* point (j * theta_step, i * phi_step), j < floor(pi / theta_step),
\* i < floor(2 pi / phi_step), and records one row per phi sample and one
\* column per theta sample.
WriteCoversGrid ==
    wpc = "done" =>
        LET nt == AsU64Quot(PI, win.theta_spacing)
            np == AsU64Quot(RMul(RInt(2), PI), win.phi_spacing)
        IN /\ Len(wfile) = 1 + np
           /\ \A r \in 1..Len(wfile) : Len(wfile[r]) = 1 + nt
           /\ Len(wcalls) = nt * np
           /\ \A j \in 0..(nt - 1), i \in 0..(np - 1) :
                 Cardinality({c \in 1..Len(wcalls) :
                                 wcalls[c] = <<RMul(RInt(j), win.theta_spacing),
                                               RMul(RInt(i), win.phi_spacing)>>}) = 1

====
